---- MODULE Spec2Model ----
(***************************************************************************)
(* CyberRakshak AI: message classification (remote classifier first, local *)
(* keyword catalog as fallback), escalation on victim-distress phrases and *)
(* URL safety check, as implemented by the interactive front end           *)
(* (src/main.py) and the Telegram bot front end (src/telegram_bot.py).     *)
(*                                                                         *)
(* A Python str is modelled as a sequence of Unicode code points.  The     *)
(* alphabet of the model is printable ASCII plus Devanagari; on it         *)
(* str.lower() maps A..Z to a..z and leaves every other code point alone.  *)
(***************************************************************************)
EXTENDS Integers, Sequences, FiniteSets, TLC

\* ------------------------------------------------------------------------
\* Strings
\* ------------------------------------------------------------------------

\* The printable ASCII characters in code-point order, 32 (space) .. 126 (~).
\* The double quote (34), the backslash (92) and the grave accent (96) are not
\* part of the alphabet of the model; a space holds their places.
Ascii ==
   " ! #$%&'()*+,-./0123456789:;<=>?@ABCDEFGHIJKLMNOPQRSTUVWXYZ[ ]^_ abcdefghijklmnopqrstuvwxyz{|}~"

\* The code points of an ASCII string literal.
S(str) ==
   [i \in 1..Len(str) |->
      31 + (CHOOSE k \in 1..Len(Ascii) : SubSeq(Ascii, k, k) = SubSeq(str, i, i))]

\* str.lower() on one code point.
LowerChar(c) == IF c >= 65 /\ c =< 90 THEN c + 32 ELSE c

\* str.lower()
Lower(s) == [i \in 1..Len(s) |-> LowerChar(s[i])]

\* Python's substring test (sub in s): sub occurs in s as a contiguous run.
\* The substring test with the bug of looking only at the start of the text
\* (startswith in place of in).
In_Prefix(sub, s) ==
   /\ Len(sub) =< Len(s)
   /\ \A j \in 1..Len(sub) : s[j] = sub[j]

In(sub, s) ==
   \E i \in 0..(Len(s) - Len(sub)) :
      \A j \in 1..Len(sub) : s[i + j] = sub[j]

\* str.strip() removes leading and trailing white space (here: spaces).
RECURSIVE LStrip(_)
LStrip(s) == IF s # <<>> /\ Head(s) = 32 THEN LStrip(Tail(s)) ELSE s

RECURSIVE RStrip(_)
RStrip(s) ==
   IF s # <<>> /\ s[Len(s)] = 32 THEN RStrip(SubSeq(s, 1, Len(s) - 1)) ELSE s

Strip(s) == RStrip(LStrip(s))

\* ------------------------------------------------------------------------
\* Pattern catalog (main.py, __init__).  A dict keeps its insertion order,
\* so the catalog is the sequence of its entries in declared order.
\* ------------------------------------------------------------------------

scam_patterns ==
   << [ threat_type |-> "phishing",
        keywords |->
          << S("click here"),
             S("verify account"),
             S("suspended account"),
             S("urgent action"),
             S("confirm identity"),
             S("update payment"),
             S("security alert"),
             S("limited time"),
             S("claim reward"),
             S("congratulations"),
             S("winner"),
             S("prize"),
             S("lottery"),
             S("bank account"),
             S("credit card"),
             S("debit card"),
             S("atm"),
             S("pin") >>,
        hindi_keywords |->
          << <<2351, 2361, 2366, 2305, 32, 2325, 2381, 2354, 2367, 2325, 32, 2325, 2352, 2375, 2306>>,
             <<2326, 2366, 2340, 2366, 32, 2360, 2340, 2381, 2351, 2366, 2346, 2367, 2340, 32, 2325, 2352, 2375, 2306>>,
             <<2340, 2369, 2352, 2306, 2340, 32, 2325, 2366, 2352, 2381, 2352, 2357, 2366, 2312>>,
             <<2346, 2361, 2330, 2366, 2344, 32, 2346, 2369, 2359, 2381, 2335, 2367>>,
             <<2348, 2376, 2306, 2325, 32, 2326, 2366, 2340, 2366>>,
             <<2319, 2335, 2368, 2319, 2350>>,
             <<2346, 2367, 2344>>,
             <<2311, 2344, 2366, 2350>>,
             <<2354, 2377, 2335, 2352, 2368>>,
             <<2332, 2368, 2340, 2344, 2375, 32, 2357, 2366, 2354, 2375>> >> ],
      [ threat_type |-> "otp_scam",
        keywords |->
          << S("otp"),
             S("one time password"),
             S("verification code"),
             S("security code"),
             S("pin"),
             S("passcode"),
             S("authentication"),
             S("share otp"),
             S("send otp"),
             S("confirm otp"),
             S("validate"),
             S("activate") >>,
        hindi_keywords |->
          << <<2323, 2335, 2368, 2346, 2368>>,
             <<2357, 2344, 32, 2335, 2366, 2311, 2350, 32, 2346, 2366, 2360, 2357, 2352, 2381, 2337>>,
             <<2360, 2340, 2381, 2351, 2366, 2346, 2344, 32, 2325, 2379, 2337>>,
             <<2360, 2369, 2352, 2325, 2381, 2359, 2366, 32, 2325, 2379, 2337>>,
             <<2346, 2367, 2344>>,
             <<2346, 2366, 2360, 2325, 2379, 2337>>,
             <<2360, 2366, 2333, 2366, 32, 2325, 2352, 2375, 2306>>,
             <<2349, 2375, 2332, 2375, 2306>> >> ],
      [ threat_type |-> "job_fraud",
        keywords |->
          << S("work from home"),
             S("easy money"),
             S("part time job"),
             S("registration fee"),
             S("advance payment"),
             S("guaranteed income"),
             S("no experience required"),
             S("data entry"),
             S("copy paste"),
             S("survey work"),
             S("earn daily") >>,
        hindi_keywords |->
          << <<2328, 2352, 32, 2360, 2375, 32, 2325, 2366, 2350>>,
             <<2310, 2360, 2366, 2344, 32, 2346, 2376, 2360, 2366>>,
             <<2346, 2366, 2352, 2381, 2335, 32, 2335, 2366, 2311, 2350, 32, 2332, 2377, 2348>>,
             <<2352, 2332, 2367, 2360, 2381, 2335, 2381, 2352, 2375, 2358, 2344, 32, 2347, 2368, 2360>>,
             <<2309, 2327, 2381, 2352, 2367, 2350, 32, 2349, 2369, 2327, 2340, 2366, 2344>>,
             <<2327, 2366, 2352, 2306, 2335, 2368, 2337, 32, 2310, 2351>>,
             <<2337, 2375, 2335, 2366, 32, 2319, 2306, 2335, 2381, 2352, 2368>>,
             <<2352, 2379, 2332, 32, 2325, 2350, 2366, 2319, 2306>> >> ],
      [ threat_type |-> "fake_link",
        keywords |->
          << S("bit.ly"),
             S("tinyurl"),
             S("shortened link"),
             S("suspicious domain"),
             S("free download"),
             S("install app"),
             S("update required"),
             S("security patch") >>,
        hindi_keywords |->
          << <<2350, 2369, 2347, 2381, 2340, 32, 2337, 2366, 2313, 2344, 2354, 2379, 2337>>,
             <<2320, 2346, 32, 2311, 2306, 2360, 2381, 2335, 2377, 2354>>,
             <<2309, 2346, 2337, 2375, 2335, 32, 2332, 2352, 2370, 2352, 2368>>,
             <<2360, 2369, 2352, 2325, 2381, 2359, 2366, 32, 2346, 2376, 2330>> >> ] >>

emergency_keywords ==
   << S("shared otp"),
      S("gave otp"),
      S("sent money"),
      S("got scammed"),
      <<2361, 2379, 32, 2327, 2351, 2366>>,
      <<2342, 2367, 2351, 2366>>,
      <<2349, 2375, 2332, 32, 2342, 2367, 2351, 2366>>,
      <<2343, 2379, 2326, 2366>> >>

\* The threat types of the catalog, in declared order.
CatalogTypes == {scam_patterns[i].threat_type : i \in 1..Len(scam_patterns)}

Languages == {"english", "hindi"}

\* ------------------------------------------------------------------------
\* Local classifier (main.py, analyze_message_local)
\* ------------------------------------------------------------------------

RECURSIVE Gcd(_, _)
Gcd(a, b) == IF b = 0 THEN a ELSE Gcd(b, a % b)

Lcm(a, b) == (a * b) \div Gcd(a, b)

\* total_keywords of a catalog entry: len(keywords) + len(hindi_keywords).
TotalKeywords(patterns) == Len(patterns.keywords) + Len(patterns.hindi_keywords)

RECURSIVE LcmUpTo(_)
LcmUpTo(n) ==
   IF n = 0 THEN 1 ELSE Lcm(LcmUpTo(n - 1), TotalKeywords(scam_patterns[n]))

\* A confidence is a float in the code.  The model holds it as an integer
\* number of units of 1/ConfUnit, ConfUnit being the least common multiple of
\* the categories' keyword totals: every value total_matches / total_keywords
\* * 2 is a whole number of units, and two such floats compare as the exact
\* fractions do (they differ by far more than a rounding error or are equal).
ConfUnit == LcmUpTo(Len(scam_patterns))

Min(a, b) == IF a =< b THEN a ELSE b

\* The count of English matches with the bug of counting every occurrence
\* of a keyword (message_lower.count(keyword) in place of the in test).
EnglishMatches_Occurrences(patterns, message) ==
   LET message_lower == Lower(message)
   IN  Cardinality(
          {p \in (1..Len(patterns.keywords)) \X (0..Len(message)) :
             LET keyword == Lower(patterns.keywords[p[1]])
             IN  /\ p[2] + Len(keyword) =< Len(message)
                 /\ \A c \in 1..Len(keyword) : message_lower[p[2] + c] = keyword[c]})

\* sum(1 for keyword in patterns['keywords'] if keyword.lower() in message_lower)
EnglishMatches(patterns, message) ==
   Cardinality({k \in 1..Len(patterns.keywords) :
                  In(Lower(patterns.keywords[k]), Lower(message))})

\* sum(1 for keyword in patterns['hindi_keywords'] if keyword in message)
HindiMatches(patterns, message) ==
   Cardinality({k \in 1..Len(patterns.hindi_keywords) :
                  In(patterns.hindi_keywords[k], message)})

TotalMatches(patterns, message) ==
   EnglishMatches(patterns, message) + HindiMatches(patterns, message)

\* The confidence with the bug of leaving out the cap at 1.0.
Confidence_Uncapped(total_matches, total_keywords) ==
   (total_matches * 2 * ConfUnit) \div total_keywords

\* min(total_matches / total_keywords * 2, 1.0)
Confidence(total_matches, total_keywords) ==
   Min((total_matches * 2 * ConfUnit) \div total_keywords, ConfUnit)

\* IsCandidate with the bug of asking for a second match.
IsCandidate_TwoMatches(total_matches) == total_matches > 1

\* The condition under which a category is appended to threats_found.
IsCandidate(total_matches) == total_matches > 0

\* threats_found after the loop over the catalog: one entry
\* (threat_type, confidence, total_matches) per category with a match, in
\* catalog order.
ThreatsFound(message) ==
   LET scored == [i \in 1..Len(scam_patterns) |->
                    LET total_matches == TotalMatches(scam_patterns[i], message)
                    IN  [threat_type |-> scam_patterns[i].threat_type,
                         confidence  |-> Confidence(total_matches,
                                                    TotalKeywords(scam_patterns[i])),
                         matches     |-> total_matches]]
   IN  SelectSeq(scored, LAMBDA t : IsCandidate(t.matches))

\* BestThreat with the bug of comparing the match counts, key=lambda x: x[2].
BestThreat_ByMatches(threats_found) ==
   threats_found[CHOOSE i \in 1..Len(threats_found) :
                    /\ \A j \in 1..Len(threats_found) :
                          threats_found[j].matches =< threats_found[i].matches
                    /\ \A j \in 1..(i - 1) :
                          threats_found[j].matches < threats_found[i].matches]

\* BestThreat with the bug of keeping the last of the entries of highest
\* confidence.
BestThreat_LastMax(threats_found) ==
   threats_found[CHOOSE i \in 1..Len(threats_found) :
                    /\ \A j \in 1..Len(threats_found) :
                          threats_found[j].confidence =< threats_found[i].confidence
                    /\ \A j \in (i + 1)..Len(threats_found) :
                          threats_found[j].confidence < threats_found[i].confidence]

\* max(threats_found, key=lambda x: x[1]): the first entry whose confidence
\* no other entry exceeds.
BestThreat(threats_found) ==
   threats_found[CHOOSE i \in 1..Len(threats_found) :
                    /\ \A j \in 1..Len(threats_found) :
                          threats_found[j].confidence =< threats_found[i].confidence
                    /\ \A j \in 1..(i - 1) :
                          threats_found[j].confidence < threats_found[i].confidence]

\* explanations[self.current_language].get(threat_type, <default>).  A text
\* is modelled by the key it is looked up under.
get_threat_explanation(threat_type, language) ==
   IF threat_type \in CatalogTypes
   THEN <<"explanation", language, threat_type>>
   ELSE <<"Unknown threat type detected.">>

\* advice[self.current_language].get(threat_type, <default>)
get_threat_advice(threat_type, language) ==
   IF threat_type \in CatalogTypes
   THEN <<"advice", language, threat_type>>
   ELSE <<"Stay vigilant and report suspicious activities.">>

\* ------------------------------------------------------------------------
\* Python values held by the variable result: None, a list or a dict.  A dict
\* is its key set together with the values of the keys it has (the fields of
\* keys it lacks hold fillers that nothing reads).
\* ------------------------------------------------------------------------

None ==
   [jtype |-> "null", n |-> 0, keys |-> {},
    is_threat |-> FALSE, threat_type |-> "", confidence |-> 0, matches |-> 0,
    explanation |-> <<>>, advice |-> <<>>]

\* A list of n elements.
List(n) == [None EXCEPT !.jtype = "array", !.n = n]

\* A dict with the given keys.
Dict(keys, is_threat, threat_type, confidence, matches, explanation, advice) ==
   [jtype |-> "object", n |-> 0, keys |-> keys,
    is_threat   |-> IF "is_threat" \in keys THEN is_threat ELSE FALSE,
    threat_type |-> IF "threat_type" \in keys THEN threat_type ELSE "",
    confidence  |-> IF "confidence" \in keys THEN confidence ELSE 0,
    matches     |-> IF "matches" \in keys THEN matches ELSE 0,
    explanation |-> IF "explanation" \in keys THEN explanation ELSE <<>>,
    advice      |-> IF "advice" \in keys THEN advice ELSE <<>>]

\* bool(v): None, the empty list and the empty dict are false.
Truthy(v) ==
   CASE v.jtype = "null"   -> FALSE
     [] v.jtype = "array"  -> v.n > 0
     [] v.jtype = "object" -> v.keys # {}

\* v[key] evaluates without raising (KeyError on a dict that lacks the key,
\* TypeError on None and on a list).
HasKey(v, key) == v.jtype = "object" /\ key \in v.keys

\* The keys of the dicts analyze_message_local returns.
LocalKeys ==
   {"is_threat", "threat_type", "confidence", "matches", "explanation", "advice"}

\* The verdict returned when threats_found is empty.
NonThreatVerdict ==
   Dict(LocalKeys, FALSE, "none", 0, 0,
        <<"No obvious threat patterns detected.">>,
        <<"Message appears safe, but always remain cautious online.">>)

\* analyze_message_local(message) with self.current_language = language.
analyze_message_local(message, language) ==
   LET threats_found == ThreatsFound(message)
   IN  IF threats_found # <<>>
       THEN LET best_threat == BestThreat(threats_found)
            IN  Dict(LocalKeys, TRUE,
                     best_threat.threat_type,
                     best_threat.confidence,
                     best_threat.matches,
                     get_threat_explanation(best_threat.threat_type, language),
                     get_threat_advice(best_threat.threat_type, language))
       ELSE NonThreatVerdict

\* ------------------------------------------------------------------------
\* Remote classifier adapter (main.py, analyze_message_with_gemini)
\* ------------------------------------------------------------------------

\* analyze_message_with_gemini with the bug of answering a failed request
\* with a verdict of its own.
analyze_message_with_gemini_Substitute(gemini_client, response) ==
   IF ~gemini_client THEN None
   ELSE IF response.kind = "json" THEN response.json
   ELSE Dict({"is_threat", "threat_type", "confidence", "explanation", "advice"},
             FALSE, "none", 0, 0, <<"Analysis unavailable.">>, <<>>)

\* analyze_message_with_gemini(message), the service answering with response:
\* generate_content raises, or returns an empty text, a text json.loads
\* rejects, or a text json.loads parses to the value response.json.
analyze_message_with_gemini(gemini_client, response) ==
   IF ~gemini_client THEN None
   ELSE CASE response.kind = "raises"     -> None
          [] response.kind = "empty"      -> None
          [] response.kind = "unparsable" -> None
          [] response.kind = "json"       -> response.json

\* ------------------------------------------------------------------------
\* Escalation (main.py analyze_message, telegram_bot.py send_analysis_result)
\* ------------------------------------------------------------------------

\* any(keyword in message.lower() for keyword in emergency_keywords)
HasEmergencyKeyword(message) ==
   \E k \in 1..Len(emergency_keywords) : In(emergency_keywords[k], Lower(message))

\* ------------------------------------------------------------------------
\* The texts of the model: lines typed into the interactive front end and
\* text messages sent to the bot.
\* ------------------------------------------------------------------------

\* A keyword is repeated up to MaxRepeat times in one message.
MaxRepeat == 3

RECURSIVE Repeat(_, _)
Repeat(s, n) == IF n = 0 THEN <<>> ELSE s \o Repeat(s, n - 1)

EmptyLine     == <<>>
BenignMsg     == S("Hello, how are you?")
LotteryMsg    == S("Congratulations! You won a lottery prize, click here to claim")
ShareOtpMsg   == S("Please share your OTP to confirm otp activation")
SentMoneyMsg  == S("I panicked and sent money already")
SharedOtpMsg  == S("I Shared OTP with the caller")
\* one keyword of phishing that is also one keyword of otp_scam
PinMsg        == S("PIN")
\* ओटीपी दिया
HindiOtpMsg   == <<2323, 2335, 2368, 2346, 2368, 32, 2342, 2367, 2351, 2366>>
\* धोखा
HindiFraudMsg == <<2343, 2379, 2326, 2366>>
\* five otp_scam keywords and three fake_link keywords
TieMsg        == S("otp passcode validate activate authentication bit.ly tinyurl install app")
\* seven of the twelve fake_link keywords
SaturatedMsg  ==
   S("bit.ly tinyurl shortened link free download install app update required security patch")

\* ten otp_scam keywords and ten job_fraud keywords
BothSaturatedMsg ==
   S("share otp send otp confirm otp passcode validate activate authentication ")
   \o S("security code verification code work from home easy money part time job ")
   \o S("registration fee advance payment guaranteed income data entry copy paste ")
   \o S("survey work earn daily")

Messages ==
   {EmptyLine, BenignMsg, LotteryMsg, ShareOtpMsg, SentMoneyMsg, SharedOtpMsg,
    PinMsg, HindiOtpMsg, HindiFraudMsg, TieMsg, SaturatedMsg, BothSaturatedMsg}
   \cup {Repeat(S("otp "), n) : n \in 1..MaxRepeat}

Urls ==
   {S("http://bit.ly/xyz"),
    S("http://example.com/free-download"),
    S(" https://TinyURL.com/a?phishing"),
    S("https://example.com/")}

Texts == Messages \cup Urls

\* ------------------------------------------------------------------------
\* Local URL heuristic (main.py check_url_safety, telegram_bot.py check_url)
\* ------------------------------------------------------------------------

\* suspicious_indicators of the interactive front end.
cli_suspicious_indicators ==
   << S("bit.ly"), S("tinyurl.com"), S("short.link"), S("rb.gy"),
      S("phishing"), S("malware"), S("suspicious-domain"),
      S("free-download"), S("urgent-update"), S("security-alert") >>

\* suspicious_indicators of the bot front end.
bot_suspicious_indicators ==
   << S("bit.ly"), S("tinyurl.com"), S("short.link"), S("rb.gy"),
      S("phishing"), S("malware"), S("suspicious-domain") >>

\* The indicators that occur in url.lower().
MatchedIndicators(suspicious_indicators, url) ==
   {suspicious_indicators[k] : k \in {j \in 1..Len(suspicious_indicators) :
                                        In(suspicious_indicators[j], Lower(url))}}

\* ------------------------------------------------------------------------
\* The functions of the text, tabulated once over the texts of the model.
\* ------------------------------------------------------------------------

StrippedTexts == {Strip(t) : t \in Texts}

LocalTable ==
   [m \in Texts \cup StrippedTexts |->
      [l \in Languages |-> analyze_message_local(m, l)]] @@ <<>>

EmergencyTable ==
   [m \in Texts \cup StrippedTexts |-> HasEmergencyKeyword(m)] @@ <<>>

CliIndicatorTable ==
   [u \in StrippedTexts |-> MatchedIndicators(cli_suspicious_indicators, u)] @@ <<>>

BotIndicatorTable ==
   [u \in StrippedTexts |-> MatchedIndicators(bot_suspicious_indicators, u)] @@ <<>>

LocalAnalysis(message, language) == LocalTable[message][language]

EmergencyFound(message) == EmergencyTable[message]

\* ------------------------------------------------------------------------
\* What one run of a handler did, as the user and the collaborators saw it.
\* ------------------------------------------------------------------------

\* No handler has run.
NoOutcome ==
   [handler         |-> "none",   \* the handler that ran
    message         |-> <<>>,     \* the text it worked on
    gemini_requests |-> 0,        \* calls of generate_content
    service         |-> "none",   \* how the remote classifier answered
    remote          |-> None,     \* what analyze_message_with_gemini returned
    local_calls     |-> 0,        \* calls of analyze_message_local
    result          |-> None,     \* the value of result that was displayed
    header          |-> "none",   \* threat: THREAT DETECTED, safe: appears safe
    shown           |-> {},       \* the keys of result shown to the user
    escalation      |-> FALSE,    \* emergency response or emergency button
    sb_requests     |-> 0,        \* calls of the Safe Browsing service
    sb_result       |-> "none",   \* check_url_with_safe_browsing: none/safe/unsafe
    heuristic_run   |-> FALSE,    \* the suspicious_indicators were consulted
    url_report      |-> {},       \* the conclusions shown for the URL
    named           |-> {},       \* the indicators named as reasons
    failed          |-> {},       \* the Telegram calls that raised
    button          |-> "none",   \* callback_data of the button that was pressed
    raised          |-> FALSE]    \* an exception left the handler

\* The display of a verdict by the interactive front end (main.py,
\* analyze_message, from result['is_threat'] on).  Each print shows its part
\* before the next key is read, so a missing key raises after the parts
\* before it were shown.
CliDisplay(o, result, message) ==
   IF ~HasKey(result, "is_threat")
   THEN [o EXCEPT !.result = result, !.raised = TRUE]
   ELSE IF result.is_threat
   THEN CASE ~HasKey(result, "threat_type") ->
               [o EXCEPT !.result = result, !.raised = TRUE]
          [] HasKey(result, "threat_type") /\ ~HasKey(result, "confidence") ->
               [o EXCEPT !.result = result, !.header = "threat",
                         !.shown = {"threat_type"}, !.raised = TRUE]
          [] HasKey(result, "threat_type") /\ HasKey(result, "confidence")
             /\ ~HasKey(result, "explanation") ->
               [o EXCEPT !.result = result, !.header = "threat",
                         !.shown = {"threat_type", "confidence"}, !.raised = TRUE]
          [] HasKey(result, "threat_type") /\ HasKey(result, "confidence")
             /\ HasKey(result, "explanation") /\ ~HasKey(result, "advice") ->
               [o EXCEPT !.result = result, !.header = "threat",
                         !.shown = {"threat_type", "confidence", "explanation"},
                         !.raised = TRUE]
          [] OTHER ->
               [o EXCEPT !.result = result, !.header = "threat",
                         !.shown = {"threat_type", "confidence", "explanation", "advice"},
                         !.escalation = EmergencyFound(message)]
   ELSE IF ~HasKey(result, "explanation")
   THEN [o EXCEPT !.result = result, !.header = "safe", !.raised = TRUE]
   ELSE [o EXCEPT !.result = result, !.header = "safe", !.shown = {"explanation"}]

\* The interactive front end's analyze_message() on the input line raw, the
\* remote service answering with response (main.py, analyze_message).
CliAnalyze(raw, gemini_client, language, response) ==
   LET message == Strip(raw)
       remote  == IF gemini_client
                  THEN analyze_message_with_gemini(gemini_client, response)
                  ELSE None
       called  == [NoOutcome EXCEPT
                     !.handler = "cli_analyze",
                     !.message = message,
                     !.gemini_requests = IF gemini_client THEN 1 ELSE 0,
                     !.service = IF gemini_client THEN response.kind ELSE "none",
                     !.remote = remote]
   IN  IF message = <<>>
       THEN [NoOutcome EXCEPT !.handler = "cli_analyze"]
       ELSE IF ~Truthy(remote)
       THEN CliDisplay([called EXCEPT !.local_calls = 1],
                       LocalAnalysis(message, language), message)
       ELSE CliDisplay(called, remote, message)

\* send_analysis_result builds the whole reply before it sends it: the keys
\* it reads must all be there (telegram_bot.py, send_analysis_result).
BotCanFormat(result) ==
   /\ HasKey(result, "is_threat")
   /\ IF result.is_threat
      THEN /\ HasKey(result, "threat_type")
           /\ HasKey(result, "confidence")
           /\ HasKey(result, "explanation")
           /\ HasKey(result, "advice")
      ELSE HasKey(result, "explanation")

\* send_analysis_result(update, result, language, original_message), its
\* reply_text succeeding.
BotDisplay(o, result, message) ==
   IF result.is_threat
   THEN [o EXCEPT !.result = result, !.header = "threat",
                  !.shown = {"threat_type", "confidence", "explanation", "advice"},
                  !.escalation = EmergencyFound(message)]
   ELSE [o EXCEPT !.result = result, !.header = "safe", !.shown = {"explanation"}]

\* The calls of the Telegram API a message handler awaits; each of them can
\* raise (network error, message not found, reply rejected).
TelegramCalls ==
   {"reply_status",    \* update.message.reply_text(analyzing_msg / checking_msg)
    "edit_local",      \* status_message.edit_text(local_msg)
    "delete_status",   \* status_message.delete()
    "reply_result",    \* reply_text of the result, inside try
    "edit_error",      \* status_message.edit_text(error_msg), inside except
    "reply_fallback"}  \* reply_text of the local result, inside except

\* The except branch with the bug of asking the remote classifier again
\* before it falls back.
BotAnalyzeExcept_Retry(o, message, language, fails) ==
   IF "edit_error" \in fails
   THEN [o EXCEPT !.failed = @ \cup {"edit_error"}, !.raised = TRUE]
   ELSE LET result == LocalAnalysis(message, language)
            again  == [o EXCEPT !.gemini_requests = @ + 1, !.local_calls = @ + 1]
        IN  IF ~BotCanFormat(result)
            THEN [again EXCEPT !.raised = TRUE]
            ELSE IF "reply_fallback" \in fails
            THEN [again EXCEPT !.failed = @ \cup {"reply_fallback"}, !.raised = TRUE]
            ELSE BotDisplay(again, result, message)

\* The except branch of the bot's analyze_message: report the failure, fall
\* back to the local classifier and send its result.
BotAnalyzeExcept(o, message, language, fails) ==
   IF "edit_error" \in fails
   THEN [o EXCEPT !.failed = @ \cup {"edit_error"}, !.raised = TRUE]
   ELSE LET result == LocalAnalysis(message, language)
            again  == [o EXCEPT !.local_calls = @ + 1]
        IN  IF ~BotCanFormat(result)
            THEN [again EXCEPT !.raised = TRUE]
            ELSE IF "reply_fallback" \in fails
            THEN [again EXCEPT !.failed = @ \cup {"reply_fallback"}, !.raised = TRUE]
            ELSE BotDisplay(again, result, message)

\* The bot's analyze_message on the text message, the remote service
\* answering with response and the Telegram calls in fails raising
\* (telegram_bot.py, analyze_message).
BotAnalyze(message, gemini_client, language, response, fails) ==
   LET remote == IF gemini_client
                 THEN analyze_message_with_gemini(gemini_client, response)
                 ELSE None
       called == [NoOutcome EXCEPT
                    !.handler = "bot_analyze",
                    !.message = message,
                    !.gemini_requests = IF gemini_client THEN 1 ELSE 0,
                    !.service = IF gemini_client THEN response.kind ELSE "none",
                    !.remote = remote]
   IN  IF "reply_status" \in fails
       THEN [NoOutcome EXCEPT !.handler = "bot_analyze", !.message = message,
                              !.failed = {"reply_status"}, !.raised = TRUE]
       ELSE IF ~Truthy(remote) /\ "edit_local" \in fails
       THEN BotAnalyzeExcept([called EXCEPT !.failed = {"edit_local"}],
                             message, language, fails)
       ELSE LET local  == ~Truthy(remote)
                result == IF local THEN LocalAnalysis(message, language)
                                   ELSE remote
                tried  == [called EXCEPT !.local_calls = IF local THEN 1 ELSE 0]
            IN  IF "delete_status" \in fails
                THEN BotAnalyzeExcept([tried EXCEPT !.failed = {"delete_status"}],
                                      message, language, fails)
                ELSE IF ~BotCanFormat(result)
                THEN BotAnalyzeExcept(tried, message, language, fails)
                ELSE IF "reply_result" \in fails
                THEN BotAnalyzeExcept([tried EXCEPT !.failed = {"reply_result"}],
                                      message, language, fails)
                ELSE BotDisplay(tried, result, message)

\* ------------------------------------------------------------------------
\* URL check (main.py check_url_with_safe_browsing and check_url_safety,
\* telegram_bot.py check_url)
\* ------------------------------------------------------------------------

\* check_url_with_safe_browsing(url), the service answering with response:
\* requests.post raises; a status other than 200; status 200 with a body
\* that is not the expected JSON; status 200 with or without matches.
check_url_with_safe_browsing(safe_browsing, response) ==
   IF ~safe_browsing THEN "none"
   ELSE CASE response = "raises"     -> "none"
          [] response = "non_200"    -> "none"
          [] response = "malformed"  -> "none"
          [] response = "matches"    -> "unsafe"
          [] response = "no_matches" -> "safe"

\* The interactive front end's check_url_safety() on the input line raw.  An
\* unsafe verdict of the service ends the check; after a safe verdict, as
\* after no verdict, the local analysis runs.
CliUrl(raw, safe_browsing, response) ==
   LET url     == Strip(raw)
       sb      == check_url_with_safe_browsing(safe_browsing, response)
       matched == CliIndicatorTable[url]
       called  == [NoOutcome EXCEPT
                     !.handler = "cli_url",
                     !.message = url,
                     !.sb_requests = IF safe_browsing THEN 1 ELSE 0,
                     !.sb_result = sb]
   IN  IF url = <<>>
       THEN [NoOutcome EXCEPT !.handler = "cli_url"]
       ELSE IF sb = "unsafe"
       THEN [called EXCEPT !.url_report = {"danger"}]
       ELSE [called EXCEPT
               !.heuristic_run = TRUE,
               !.url_report = (IF sb = "safe" THEN {"service_safe"} ELSE {})
                              \cup (IF matched # {} THEN {"warning"} ELSE {"clean"}),
               !.named = matched]

\* The bot's check_url on the text message: the local analysis runs only
\* when the service gave no verdict, and names no indicator.
BotUrl(text, safe_browsing, response, fails) ==
   LET url     == Strip(text)
       sb      == check_url_with_safe_browsing(safe_browsing, response)
       matched == BotIndicatorTable[url]
       called  == [NoOutcome EXCEPT
                     !.handler = "bot_url",
                     !.message = url,
                     !.sb_requests = IF safe_browsing THEN 1 ELSE 0,
                     !.sb_result = sb,
                     !.heuristic_run = (sb = "none")]
       report  == CASE sb = "unsafe" -> {"danger"}
                    [] sb = "safe"   -> {"service_safe"}
                    [] sb = "none"   -> IF matched # {} THEN {"warning"} ELSE {"clean"}
       first   == IF "delete_status" \in fails THEN {"delete_status"}
                  ELSE IF "reply_result" \in fails THEN {"reply_result"}
                  ELSE {}
   IN  IF "reply_status" \in fails
       THEN [NoOutcome EXCEPT !.handler = "bot_url", !.message = url,
                              !.failed = {"reply_status"}, !.raised = TRUE]
       ELSE IF first = {}
       THEN [called EXCEPT !.url_report = report]
       ELSE IF "edit_error" \notin fails
       THEN [called EXCEPT !.url_report = {"failed"}, !.failed = first]
       ELSE [called EXCEPT !.failed = first \cup {"edit_error"}, !.raised = TRUE]

\* ------------------------------------------------------------------------
\* Inputs
\* ------------------------------------------------------------------------

\* At most MaxFailures of the Telegram calls of one handler run raise.
MaxFailures == 2

RemoteKeys == {"is_threat", "threat_type", "confidence", "explanation", "advice"}

RemoteVerdict(is_threat, threat_type, confidence) ==
   Dict(RemoteKeys, is_threat, threat_type, confidence, 0,
        <<"remote explanation">>, <<"remote advice">>)

\* Dicts with every key of the requested format; the service chooses the
\* values.
RemoteVerdicts ==
   {RemoteVerdict(FALSE, "none", 0),
    RemoteVerdict(TRUE, "social_engineering", ConfUnit),
    RemoteVerdict(FALSE, "none", ConfUnit),
    RemoteVerdict(TRUE, "none", 0),
    RemoteVerdict(TRUE, "phishing", ConfUnit + ConfUnit \div 2)}

\* Non-empty dicts that lack a key of the requested format; the last one
\* has the keys the display of a safe message reads.
RemotePartial ==
   {Dict({"explanation"}, FALSE, "", 0, 0, <<"remote explanation">>, <<>>),
    Dict({"is_threat", "threat_type"}, TRUE, "phishing", 0, 0, <<>>, <<>>),
    Dict({"is_threat"}, FALSE, "", 0, 0, <<>>, <<>>),
    Dict({"is_threat", "explanation"}, FALSE, "", 0, 0, <<"remote explanation">>, <<>>)}

\* Values json.loads can return: null, {}, a list, a dict.
RemotePayloads ==
   {None, Dict({}, FALSE, "", 0, 0, <<>>, <<>>), List(1)}
   \cup RemoteVerdicts \cup RemotePartial

NoResponse == [kind |-> "raises", json |-> None]

GeminiResponses ==
   {[kind |-> k, json |-> None] : k \in {"raises", "empty", "unparsable"}}
   \cup {[kind |-> "json", json |-> v] : v \in RemotePayloads}

SafeBrowsingResponses == {"raises", "non_200", "malformed", "matches", "no_matches"}

FailureSets == {F \in SUBSET TelegramCalls : Cardinality(F) =< MaxFailures}

Users == {"u1", "u2"}

\* ------------------------------------------------------------------------
\* State
\* ------------------------------------------------------------------------

VARIABLES
   gemini_client,     \* CyberRakshakAI.gemini_client is set
   safe_browsing,     \* safe_browsing_api_key is set and requests is importable
   current_language,  \* CyberRakshakAI.current_language
   user_languages,    \* CyberRakshakTelegramBot.user_languages
   waiting_for,       \* context.user_data['waiting_for'] of each user
   user,              \* the user whose input is handled
   text,              \* the input: a line typed, or the text of a message
   out                \* what the handler did

vars ==
   <<gemini_client, safe_browsing, current_language, user_languages,
     waiting_for, user, text, out>>

\* dict.get with the bug of looking up a key the dict never has: the default
\* is always returned.
Get_Missing(dict, key, default) == default

\* dict.get(key, default) on a dict held as a function to values or absent.
Get(dict, key, default) == IF dict[key] = "absent" THEN default ELSE dict[key]

\* One input is followed from its arrival to the end of its handler.  The
\* bot has so far been used by the user who sends it.
Init ==
   /\ gemini_client \in BOOLEAN
   /\ safe_browsing \in BOOLEAN
   /\ current_language \in Languages
   /\ user \in Users
   /\ user_languages \in
         {f \in [Users -> Languages \cup {"absent"}] :
            \A u \in Users \ {user} : f[u] = "absent"}
   /\ waiting_for \in
         {f \in [Users -> {"absent", "message_analysis", "url_check"}] :
            \A u \in Users \ {user} : f[u] = "absent"}
   /\ text \in Texts
   /\ out = NoOutcome

\* Option 1 of the interactive menu.
CliAnalyzeMessage ==
   /\ out.handler = "none"
   /\ \E response \in (IF gemini_client THEN GeminiResponses ELSE {NoResponse}) :
         out' = CliAnalyze(text, gemini_client, current_language, response)
   /\ UNCHANGED <<gemini_client, safe_browsing, current_language,
                  user_languages, waiting_for, user, text>>

\* Option 3 of the interactive menu.
CliCheckUrl ==
   /\ out.handler = "none"
   /\ \E response \in (IF safe_browsing THEN SafeBrowsingResponses ELSE {"raises"}) :
         out' = CliUrl(text, safe_browsing, response)
   /\ UNCHANGED <<gemini_client, safe_browsing, current_language,
                  user_languages, waiting_for, user, text>>

\* The assignment self.cyber_ai.current_language = current_lang with the bug
\* of leaving it out: the engine keeps the language of the call before.
SetLanguage_Skip(engine_language, current_lang) == engine_language

\* self.cyber_ai.current_language = current_lang: the language the shared
\* engine has once message_handler has assigned the language of the user.
SetLanguage(engine_language, current_lang) == current_lang

\* The bot's message_handler on the text message t of user u, the Telegram
\* calls in one of the sets failures raising and the services answering
\* with one of gemini_responses or safe_browsing_responses: it sets the
\* language of the shared CyberRakshakAI, runs check_url when the user is
\* waiting for a URL check and analyze_message otherwise; the local
\* classifier reads the language of the engine; the handler it runs clears
\* waiting_for unless an exception leaves it.
HandleMessage(u, t, failures, gemini_responses, safe_browsing_responses) ==
   LET current_lang == Get(user_languages, u, "english")
   IN  /\ current_language' = SetLanguage(current_language, current_lang)
       /\ \E fails \in failures :
             IF waiting_for[u] = "url_check"
             THEN \E response \in (IF safe_browsing THEN safe_browsing_responses
                                                     ELSE {"raises"}) :
                     out' = BotUrl(t, safe_browsing, response, fails)
             ELSE \E response \in (IF gemini_client THEN gemini_responses
                                                     ELSE {NoResponse}) :
                     out' = BotAnalyze(t, gemini_client, current_language',
                                       response, fails)
       /\ waiting_for' = IF out'.raised THEN waiting_for
                         ELSE [waiting_for EXCEPT ![u] = "absent"]

\* A text message of user arrives at the bot.
MessageHandler ==
   /\ out.handler = "none"
   /\ Strip(text) # <<>>
   /\ HandleMessage(user, text, FailureSets, GeminiResponses, SafeBrowsingResponses)
   /\ UNCHANGED <<gemini_client, safe_browsing, user_languages, user, text>>

Next == CliAnalyzeMessage \/ CliCheckUrl \/ MessageHandler

Spec == Init /\ [][Next]_vars

\* ------------------------------------------------------------------------
\* The bot in use: updates of several users, handled one after the other
\* (telegram_bot.py, main: the Application is built without
\* concurrent_updates, so a handler ends before the next update is taken).
\* ------------------------------------------------------------------------

\* The text messages the users send.
SessionTexts == {BenignMsg, ShareOtpMsg, S("http://bit.ly/xyz")}

\* The Telegram calls that raise while a text message is handled.
SessionFailures ==
   {{}, {"reply_status"}, {"delete_status"}, {"delete_status", "edit_error"}}

\* The answers of the remote classifier.
SessionGemini ==
   {NoResponse, [kind |-> "json", json |-> RemoteVerdict(TRUE, "phishing", ConfUnit)]}

\* The answers of the reputation service.
SessionSafeBrowsing == {"raises", "matches", "no_matches"}

\* callback_data of the buttons of the menus.
ButtonData == {"analyze", "emergency", "url_check", "learn", "hindi", "english"}

\* What a handler that classifies nothing did.
Handled(handler, raised) ==
   [NoOutcome EXCEPT !.handler = handler, !.raised = raised]

\* The bot has been constructed and no update has arrived.
InitBot ==
   /\ gemini_client \in BOOLEAN
   /\ safe_browsing \in BOOLEAN
   /\ current_language = "english"
   /\ user_languages = [u \in Users |-> "absent"]
   /\ waiting_for = [u \in Users |-> "absent"]
   /\ user \in Users
   /\ text = <<>>
   /\ out = NoOutcome

\* /start of user u: the language is reset before the menu is sent, so it is
\* reset whether or not reply_text raises.
Start(u) ==
   /\ user' = u
   /\ text' = <<>>
   /\ user_languages' = [user_languages EXCEPT ![u] = "english"]
   /\ \E raised \in BOOLEAN : out' = Handled("start", raised)
   /\ UNCHANGED <<gemini_client, safe_browsing, current_language, waiting_for>>

\* button_handler with the bug of storing the language chosen by one user
\* as the language of the bot, for every user.
ButtonHandler_Global(u, data) ==
   /\ user' = u
   /\ text' = <<>>
   /\ \E raises \in {"nothing", "answer", "edit"} :
         /\ out' = [Handled("button", raises # "nothing") EXCEPT !.button = data]
         /\ waiting_for' =
               IF raises = "nothing" /\ data = "analyze"
               THEN [waiting_for EXCEPT ![u] = "message_analysis"]
               ELSE IF raises = "nothing" /\ data = "url_check"
               THEN [waiting_for EXCEPT ![u] = "url_check"]
               ELSE waiting_for
         /\ user_languages' =
               IF raises # "answer" /\ data \in {"hindi", "english"}
               THEN [v \in Users |-> data]
               ELSE user_languages
   /\ UNCHANGED <<gemini_client, safe_browsing, current_language>>

\* button_handler for the button data pressed by user u.  query.answer() can
\* raise before anything is done; the analyze and url_check branches edit
\* the menu before they set waiting_for; the language branches set the
\* language before they send the menu.
ButtonHandler(u, data) ==
   /\ user' = u
   /\ text' = <<>>
   /\ \E raises \in {"nothing", "answer", "edit"} :
         /\ out' = [Handled("button", raises # "nothing") EXCEPT !.button = data]
         /\ waiting_for' =
               IF raises = "nothing" /\ data = "analyze"
               THEN [waiting_for EXCEPT ![u] = "message_analysis"]
               ELSE IF raises = "nothing" /\ data = "url_check"
               THEN [waiting_for EXCEPT ![u] = "url_check"]
               ELSE waiting_for
         /\ user_languages' =
               IF raises # "answer" /\ data \in {"hindi", "english"}
               THEN [user_languages EXCEPT ![u] = data]
               ELSE user_languages
   /\ UNCHANGED <<gemini_client, safe_browsing, current_language>>

\* message_handler for the text message t of user u.
TextMessage(u, t) ==
   /\ user' = u
   /\ text' = t
   /\ HandleMessage(u, t, SessionFailures, SessionGemini, SessionSafeBrowsing)
   /\ UNCHANGED <<gemini_client, safe_browsing, user_languages>>

NextBot ==
   \/ \E u \in Users : Start(u)
   \/ \E u \in Users, data \in ButtonData : ButtonHandler(u, data)
   \/ \E u \in Users, t \in SessionTexts : TextMessage(u, t)

SpecBot == InitBot /\ [][NextBot]_vars

\* ------------------------------------------------------------------------
\* Properties
\* ------------------------------------------------------------------------

\* A message analysis ran.
Analysed == out.handler \in {"cli_analyze", "bot_analyze"}

\* A message analysis ran and showed its verdict to the user in full.
Delivered == Analysed /\ out.header # "none" /\ ~out.raised

\* The remote classifier gave no verdict: it is not configured, or the
\* request raised, or the response was empty or could not be parsed.
RemoteAbsent == out.service \in {"none", "raises", "empty", "unparsable"}

\* C1: every message that contains a distress phrase raises the escalation
\* signal, whether the verdict shown for it has is_threat true or false.
C1_EscalationIndependent ==
   (Delivered /\ HasEmergencyKeyword(out.message)) => out.escalation

\* C2: whenever the remote classifier returns a verdict, the verdict shown is
\* that verdict and the local classifier is not invoked in that run.
C2_StrictWaterfall ==
   (Analysed /\ out.remote \in RemoteVerdicts)
      => (out.local_calls = 0 /\ out.result = out.remote)

\* The verdict shown is the one the local classifier computes for the
\* message in the language in force.
LocalShown == out.result = LocalAnalysis(out.message, current_language)

\* C3: when the remote classifier is not configured or gives no verdict, the
\* analysis ends with a defined verdict, the local classifier's for the same
\* message: no exception leaves the handler unless a Telegram call raised,
\* and what is shown is the local verdict with all its keys.
C3_RemoteAbsentFallback ==
   (Analysed /\ out.message # <<>> /\ RemoteAbsent)
      => /\ out.failed = {} => ~out.raised
         /\ ~out.raised => /\ out.header # "none"
                           /\ out.local_calls >= 1
                           /\ out.result.keys = LocalKeys
                           /\ LocalShown

\* C3 happens: the response of the remote classifier could not be parsed and
\* the bot showed the local classifier's threat verdict.
C3_Witness ==
   /\ Delivered
   /\ out.handler = "bot_analyze"
   /\ out.service = "unparsable"
   /\ out.result.is_threat
   /\ LocalShown

\* C4: every verdict shown, remote or local, has category none and
\* confidence 0.0 when is_threat is false, and a confidence above 0.0 and a
\* category other than none when is_threat is true.
C4_VerdictInvariant ==
   Delivered =>
      IF out.result.is_threat
      THEN out.result.confidence > 0 /\ out.result.threat_type # "none"
      ELSE out.result.confidence = 0 /\ out.result.threat_type = "none"

\* C5: the confidence of every verdict shown, remote or local, lies in
\* [0.0, 1.0].
C5_ConfidenceInRange ==
   Delivered => (0 =< out.result.confidence /\ out.result.confidence =< ConfUnit)

\* The message contains a keyword of the catalog: a Latin-script keyword in
\* the lower-cased message, or a non-Latin keyword in the message as it is.
ContainsCatalogKeyword(message) ==
   \E i \in 1..Len(scam_patterns) :
      \/ \E k \in 1..Len(scam_patterns[i].keywords) :
            In(scam_patterns[i].keywords[k], Lower(message))
      \/ \E k \in 1..Len(scam_patterns[i].hindi_keywords) :
            In(scam_patterns[i].hindi_keywords[k], message)

KeywordTable ==
   [m \in Texts \cup StrippedTexts |-> ContainsCatalogKeyword(m)] @@ <<>>

\* C6: with the remote classifier absent, the verdict is the non-threat
\* verdict (is_threat false, category none, confidence 0.0) exactly when the
\* message contains no keyword of the catalog, and is_threat is true as soon
\* as it contains one.
C6_NoKeywordNoThreat ==
   (Delivered /\ RemoteAbsent)
      => /\ out.result.is_threat <=> KeywordTable[out.message]
         /\ ~out.result.is_threat
               => (out.result.threat_type = "none" /\ out.result.confidence = 0)

\* C6 happens: one keyword match made a threat verdict.
C6_Witness ==
   /\ Delivered
   /\ RemoteAbsent
   /\ out.result.is_threat
   /\ out.result.matches = 1

\* The match count and the confidence of every category of the catalog for a
\* message, by position in the catalog.
Scores(message) ==
   [i \in 1..Len(scam_patterns) |->
      [matches    |-> TotalMatches(scam_patterns[i], message),
       confidence |-> Confidence(TotalMatches(scam_patterns[i], message),
                                 TotalKeywords(scam_patterns[i]))]]

ScoreTable == [m \in Texts \cup StrippedTexts |-> Scores(m)] @@ <<>>

\* A threat verdict of the local classifier was shown.
LocalThreatShown ==
   Delivered /\ out.result.keys = LocalKeys /\ out.result.is_threat

\* The position in the catalog of the category of the verdict shown.
Winner == CHOOSE i \in 1..Len(scam_patterns) :
             scam_patterns[i].threat_type = out.result.threat_type

\* Categories a before b of the catalog match the message equally often, and
\* one of them won.
EqualCounts(a, b) ==
   /\ a < b
   /\ ScoreTable[out.message][a].matches > 0
   /\ ScoreTable[out.message][a].matches = ScoreTable[out.message][b].matches
   /\ Winner \in {a, b}

\* C7 as stated: of two categories with equal match counts, the one earlier
\* in the declared order of the catalog is the winner.
C7_EarlierWinsOnEqualCounts ==
   LocalThreatShown =>
      \A a, b \in 1..Len(scam_patterns) : EqualCounts(a, b) => Winner = a

\* C7 amended: of two categories with equal match counts, the one with the
\* higher confidence is the winner, and the earlier one in the declared order
\* only when the later one's confidence is not higher.
C7_HigherConfidenceWinsOnEqualCounts ==
   LocalThreatShown =>
      \A a, b \in 1..Len(scam_patterns) :
         EqualCounts(a, b) =>
            IF ScoreTable[out.message][b].confidence
                  > ScoreTable[out.message][a].confidence
            THEN Winner = b
            ELSE Winner = a

\* C7 happens: two categories match equally often and the later one won.
C7_Witness ==
   /\ LocalThreatShown
   /\ \E a, b \in 1..Len(scam_patterns) : EqualCounts(a, b) /\ Winner = b

\* C8: the winning category is a candidate, no candidate has a higher
\* confidence, and no candidate of the same confidence comes before it in
\* the catalog.
C8_HighestConfidenceFirstWins ==
   LocalThreatShown =>
      LET score == ScoreTable[out.message]
      IN  /\ score[Winner].matches > 0
          /\ out.result.confidence = score[Winner].confidence
          /\ \A c \in 1..Len(scam_patterns) :
                score[c].matches > 0 =>
                   /\ score[c].confidence =< score[Winner].confidence
                   /\ score[c].confidence = score[Winner].confidence => Winner =< c

\* C8 happens: two candidates share the highest confidence.
C8_Witness ==
   /\ LocalThreatShown
   /\ \E c \in 1..Len(scam_patterns) :
         /\ c # Winner
         /\ ScoreTable[out.message][c].matches > 0
         /\ ScoreTable[out.message][c].confidence = out.result.confidence

\* A URL check ran and showed its conclusion.
UrlChecked ==
   /\ out.handler \in {"cli_url", "bot_url"}
   /\ out.url_report \cap {"danger", "service_safe", "warning", "clean"} # {}

\* C9: when the reputation service answers, safe or unsafe, its verdict is
\* the conclusion shown and the local heuristic is not run.
C9_ServiceVerdictAuthoritative ==
   (UrlChecked /\ out.sb_result \in {"safe", "unsafe"})
      => /\ ~out.heuristic_run
         /\ out.url_report = IF out.sb_result = "unsafe" THEN {"danger"}
                                                         ELSE {"service_safe"}

\* C10: when the reputation service gives no verdict, the URL is flagged
\* exactly when it contains one of the suspicious substrings (URL shorteners,
\* phishing, malware, free-download, urgent-update, ...), and the substrings
\* that matched are the ones named.
C10_LocalHeuristic ==
   (UrlChecked /\ out.sb_result = "none")
      => /\ ("warning" \in out.url_report) <=> (CliIndicatorTable[out.message] # {})
         /\ out.named = CliIndicatorTable[out.message]

\* The value has every key of the format the prompt requests.
WellFormed(v) == v.jtype = "object" /\ RemoteKeys \subseteq v.keys

\* The remote classifier answered with something that is not a verdict of
\* the requested format: a text that does not parse, or parsed data that is
\* not a dict or lacks a key.
RemoteMalformed ==
   \/ out.service = "unparsable"
   \/ out.service = "json" /\ ~WellFormed(out.remote)

\* C11: a malformed answer of the remote classifier is treated as absent:
\* the local classifier runs, nothing of the answer is shown, and the
\* analysis ends with the local verdict as it does when the service is
\* unavailable.
C11_MalformedTreatedAsAbsent ==
   (Analysed /\ RemoteMalformed /\ out.failed = {})
      => /\ ~out.raised
         /\ out.local_calls >= 1
         /\ out.header # "none"
         /\ LocalShown

\* C12: the analysis is total: whatever the message and whatever the remote
\* service answers, no exception leaves it unless a Telegram call raised,
\* it ends with a verdict, and the empty message is classified as the
\* non-threat verdict.
C12_ClassifyTotal ==
   /\ (Analysed /\ out.failed = {}) => ~out.raised
   /\ (Analysed /\ out.failed = {} /\ out.message # <<>>) => out.header # "none"
   /\ \A l \in Languages : LocalAnalysis(<<>>, l) = NonThreatVerdict

\* C13: the adapter of the remote classifier hands its caller either the
\* no-verdict value or a verdict of the requested format that the service
\* sent: on a request that raised, on an empty or malformed response and
\* without a client it returns the no-verdict value.
C13_AdapterNoVerdictOnFailure ==
   (Analysed /\ out.message # <<>> /\ "reply_status" \notin out.failed)
      => /\ RemoteAbsent => out.remote = None
         /\ ~Truthy(out.remote) \/ WellFormed(out.remote)

\* An answer of the reputation service that check_url_with_safe_browsing
\* turns into the verdict sb.
ServiceAnswer(sb) ==
   CHOOSE r \in SafeBrowsingResponses : check_url_with_safe_browsing(TRUE, r) = sb

\* C15: for the same URL and the same outcome of the reputation service the
\* bot and the interactive front end consult the local heuristic in the same
\* cases, with the same list of suspicious substrings, and show the same
\* conclusion.
C15_SameUrlProtocol ==
   (out.handler = "bot_url" /\ UrlChecked)
      => LET cli == CliUrl(text, safe_browsing, ServiceAnswer(out.sb_result))
         IN  /\ cli.heuristic_run = out.heuristic_run
             /\ cli.url_report = out.url_report
             /\ cli_suspicious_indicators = bot_suspicious_indicators

\* C16: the escalation signal of a message that was analysed is raised if
\* and only if the message contains one of the distress phrases, the
\* Latin-script ones in any case; one phrase is enough.
C16_EscalationIffDistressPhrase ==
   Delivered => (out.escalation <=> EmergencyFound(out.message))

\* C17: one analysis asks the remote classifier at most once, and when the
\* remote classifier gave nothing the local classifier is what runs next.
C17_SingleRemoteAttempt ==
   Analysed
      => /\ out.gemini_requests =< 1
         /\ (out.message # <<>> /\ ~Truthy(out.remote) /\ ~out.raised)
               => (out.local_calls >= 1 /\ LocalShown)

\* C17 happens: the request to the remote classifier raised, a Telegram call
\* raised as well, and the except branch of the bot delivered the local
\* verdict without a second request.
C17_Witness ==
   /\ Delivered
   /\ out.handler = "bot_analyze"
   /\ out.service = "raises"
   /\ out.gemini_requests = 1
   /\ out.failed # {}
   /\ out.local_calls >= 1

\* C18: with the remote classifier absent the message Please share your OTP
\* to confirm otp activation is classified otp_scam, and no other category
\* reaches the confidence of otp_scam for it.
C18_ShareOtpIsOtpScam ==
   (Delivered /\ RemoteAbsent /\ out.message = ShareOtpMsg)
      => /\ out.result.is_threat
         /\ out.result.threat_type = "otp_scam"
         /\ \A c \in 1..Len(scam_patterns) :
               scam_patterns[c].threat_type # "otp_scam"
                  => ScoreTable[ShareOtpMsg][c].confidence < out.result.confidence

\* C18 happens: the message was classified by the local classifier.
C18_Witness ==
   /\ Delivered
   /\ RemoteAbsent
   /\ out.message = ShareOtpMsg
   /\ out.result.threat_type = "otp_scam"

\* C19: the confidence of every candidate category is 1.0 exactly when its
\* matches are at least half of its keywords, and otherwise it is twice the
\* matches over the keywords, strictly between 0 and 1; the verdict shown
\* carries the confidence of its category.
C19_ConfidenceFormula ==
   LocalThreatShown =>
      /\ out.result.confidence = ScoreTable[out.message][Winner].confidence
      /\ out.result.matches = ScoreTable[out.message][Winner].matches
      /\ \A i \in 1..Len(scam_patterns) :
            LET m == ScoreTable[out.message][i].matches
                c == ScoreTable[out.message][i].confidence
                t == Len(scam_patterns[i].keywords)
                        + Len(scam_patterns[i].hindi_keywords)
            IN  m > 0 =>
                   /\ (c = ConfUnit) <=> (2 * m >= t)
                   /\ 2 * m < t => (0 < c /\ c < ConfUnit /\ c * t = 2 * m * ConfUnit)

\* C19 happens: the category shown has more than half of its keywords in the
\* message and its confidence is 1.0.
C19_Witness ==
   /\ LocalThreatShown
   /\ out.result.confidence = ConfUnit
   /\ 2 * out.result.matches
         > Len(scam_patterns[Winner].keywords)
              + Len(scam_patterns[Winner].hindi_keywords)

\* The language user u has chosen, english until one is chosen.
LanguageOf(u) ==
   IF user_languages[u] = "absent" THEN "english" ELSE user_languages[u]

C21_MatchesCountKeywordsOnce ==
   (Delivered /\ out.result.keys = LocalKeys)
      => LET score == ScoreTable[out.message]
         IN  /\ \A i \in 1..Len(scam_patterns) :
                   score[i].matches =< Len(scam_patterns[i].keywords)
                                          + Len(scam_patterns[i].hindi_keywords)
             /\ \A n \in 1..MaxRepeat :
                   ScoreTable[Repeat(S("otp "), n)] = ScoreTable[S("otp ")]
             /\ IF out.result.is_threat
                THEN /\ out.result.matches = score[Winner].matches
                     /\ out.result.matches >= 1
                ELSE /\ out.result.matches = 0
                     /\ \A i \in 1..Len(scam_patterns) : score[i].matches = 0

\* C21 happens: a message that repeats one keyword MaxRepeat times got a
\* threat verdict with one match.
C21_Witness ==
   /\ LocalThreatShown
   /\ out.message \in {Repeat(S("otp "), MaxRepeat), Strip(Repeat(S("otp "), MaxRepeat))}
   /\ out.result.matches = 1

\* C22: a text message goes to the URL check exactly when the user is
\* waiting for a URL check, and to the message analysis otherwise; and once
\* the text message has been handled, whether the handler succeeded or
\* failed, the user is waiting for nothing.
C22_WaitingForCleared ==
   [][out'.handler \in {"bot_analyze", "bot_url"}
         => /\ (out'.handler = "bot_url") <=> (waiting_for[user'] = "url_check")
            /\ waiting_for'[user'] = "absent"]_vars

\* C23: the language stored for a user is english or hindi once it is set,
\* and a step changes it only when it is a step of that user: /start sets
\* english, the hindi button sets hindi and the english button sets english
\* (when query.answer() has not raised); the steps of other users, the
\* other buttons, the message analyses and the URL checks leave it as it is.
C23_LanguageChangesOnlyByOwner ==
   [][\A u \in Users :
         /\ user_languages'[u] \in Languages \cup {"absent"}
         /\ user_languages[u] # "absent" => user_languages'[u] # "absent"
         /\ (user' = u /\ out'.handler = "start") => user_languages'[u] = "english"
         /\ (user' = u /\ out'.handler = "button" /\ ~out'.raised
                 /\ out'.button \in {"hindi", "english"})
               => user_languages'[u] = out'.button
         /\ user_languages'[u] # user_languages[u]
               => /\ user' = u
                  /\ \/ out'.handler = "start" /\ user_languages'[u] = "english"
                     \/ /\ out'.handler = "button"
                        /\ out'.button \in {"hindi", "english"}
                        /\ user_languages'[u] = out'.button]_vars

\* C23 happens: a user has chosen hindi, and a message analysis of another
\* user, whose language is english, has run since and left that choice.
C23_Witness ==
   /\ out.handler = "bot_analyze"
   /\ Delivered
   /\ user_languages[user] = "english"
   /\ \E other \in Users \ {user} : user_languages[other] = "hindi"

====
